---- MODULE Spec2Model ----
(***************************************************************************)
(* A model of sclock.Clock (src/sclock/clock.py): the label-keyed timing   *)
(* registry, its wrapper (decorator) capture, its scoped (with-statement)  *)
(* capture and its queries.                                                *)
(*                                                                         *)
(* Python values are represented as follows.                               *)
(*   - a list object is a reference r into `heap`; heap[r] is its content. *)
(*     A reference that nothing holds any more is reclaimed.               *)
(*   - time.perf_counter() reads `now`, a counter of timer ticks; a        *)
(*     duration is a difference of two readings.                           *)
(*   - a float result is an exact fraction [num, den] in lowest terms.     *)
(*   - the call stack of the single Python thread is `stack`.              *)
(***************************************************************************)
EXTENDS Integers, Sequences, FiniteSets, TLC

\* Bounds of the model.
MaxTick == 2
MaxSamples == 2
MaxDepth == 2
MaxStatLen == 4
MaxVal == 3

Labels == {"a", "b"}
None == "None"
Unset == "unset"
Refs == 1..(Cardinality(Labels) + 1)
NoRef == 0
RetVals == {1, 2}
NoExc == "none"
ValueError == "ValueError"
UserErrors == {"E1"}
Pending == 0
NoTime == -1

VARIABLES
    _time_bank,   \* self._time_bank: label -> reference of its list
    heap,         \* the list objects: reference -> sequence of durations
    _label,       \* self._label (Unset while the attribute does not exist)
    _start_time,  \* self._start_time (NoTime while the attribute does not exist)
    now,          \* the reading of time.perf_counter()
    stack,        \* the active wrapper invocations and with-blocks, innermost last
    raising,      \* the exception in flight, NoExc when there is none
    ret,          \* the value the last completed call returned to its caller
    held          \* the list the caller keeps from its last get_times call

vars == <<_time_bank, heap, _label, _start_time, now, stack, raising, ret, held>>

----------------------------------------------------------------------------
\* Values

RECURSIVE GCD(_, _)
GCD(a, b) == IF b = 0 THEN a ELSE GCD(b, a % b)

\* The float n/d, exactly.
Rat(n, d) == LET g == GCD(n, d) IN [num |-> n \div g, den |-> d \div g]
Zero == Rat(0, 1)

\* What a call returned: the call, the kind of value, and the value (a
\* reference for a list, a fraction for a float).
RetNone(call) == [call |-> call, kind |-> "none", num |-> 0, den |-> 1]
RetSelf(call) == [call |-> call, kind |-> "self", num |-> 0, den |-> 1]
RetValue(call, v) == [call |-> call, kind |-> "value", num |-> v, den |-> 1]
RetList(call, r) == [call |-> call, kind |-> "list", num |-> r, den |-> 1]
RetFloat(call, q) == [call |-> call, kind |-> "float", num |-> q.num, den |-> q.den]

Range(f) == {f[x] : x \in DOMAIN f}

----------------------------------------------------------------------------
\* The reductions the queries use

RECURSIVE sum(_)
sum(times) ==
    IF times = <<>> THEN 0
    ELSE sum(SubSeq(times, 1, Len(times) - 1)) + times[Len(times)]

\* A minimum that only looks at the first and the last element.
min_of_ends(times) ==
    IF times[Len(times)] < times[1] THEN times[Len(times)] ELSE times[1]

RECURSIVE min(_)
min(times) ==
    IF Len(times) = 1 THEN times[1]
    ELSE LET m == min(SubSeq(times, 1, Len(times) - 1))
         IN IF times[Len(times)] < m THEN times[Len(times)] ELSE m

RECURSIVE max(_)
max(times) ==
    IF Len(times) = 1 THEN times[1]
    ELSE LET m == max(SubSeq(times, 1, Len(times) - 1))
         IN IF times[Len(times)] > m THEN times[Len(times)] ELSE m

\* x put into the ascending sequence s, after the elements equal to it.
RECURSIVE Insert(_, _)
Insert(s, x) ==
    IF s = <<>> THEN <<x>>
    ELSE IF x < s[1] THEN <<x>> \o s
    ELSE <<s[1]>> \o Insert(Tail(s), x)

\* sorted(data): a new ascending list; data itself is not touched.
RECURSIVE sorted(_)
sorted(data) ==
    IF data = <<>> THEN <<>>
    ELSE Insert(sorted(SubSeq(data, 1, Len(data) - 1)), data[Len(data)])

\* A median that takes the middle of the list as stored, without sorting it.
median_unsorted(data) ==
    LET n == Len(data)
        i == n \div 2
    IN IF n % 2 = 1 THEN Rat(data[i + 1], 1)
       ELSE Rat(data[i] + data[i + 1], 2)

\* statistics.median(data), data not empty.
median(data) ==
    LET s == sorted(data)
        n == Len(s)
        i == n \div 2
    IN IF n % 2 = 1 THEN Rat(s[i + 1], 1)
       ELSE Rat(s[i] + s[i + 1], 2)

----------------------------------------------------------------------------
\* The defaultdict and the list objects

\* The reference of the new list object made for a missing label. Any free
\* reference would do; a label takes the one with its own number when that
\* is free, and the first free one otherwise.
Slot(label) == IF label = "a" THEN 1 ELSE 2

NewRef(label) ==
    IF Slot(label) \notin DOMAIN heap THEN Slot(label)
    ELSE CHOOSE r \in Refs \ DOMAIN heap : \A q \in Refs \ DOMAIN heap : r <= q

\* self._time_bank[label]: a missing label is inserted with a new empty list.
BankAfterGet(label) ==
    IF label \in DOMAIN _time_bank THEN _time_bank
    ELSE _time_bank @@ (label :> NewRef(label))

HeapAfterGet(label) ==
    IF label \in DOMAIN _time_bank THEN heap
    ELSE heap @@ (NewRef(label) :> <<>>)

RefOf(label) == BankAfterGet(label)[label]

\* The content of the list self._time_bank[label] evaluates to.
Times(label) == HeapAfterGet(label)[RefOf(label)]

\* A recording that inserts the sample at the front of the list.
HeapAfterAppend_front(label, d) ==
    [HeapAfterGet(label) EXCEPT ![RefOf(label)] = <<d>> \o @]

\* self._time_bank[label].append(d)
HeapAfterAppend(label, d) ==
    [HeapAfterGet(label) EXCEPT ![RefOf(label)] = Append(@, d)]

\* The list objects still referenced: by the bank b or by the caller (roots).
Reclaim(h, b, roots) == [r \in (DOMAIN h) \cap (Range(b) \cup roots) |-> h[r]]

RECURSIVE CountIn(_, _)
CountIn(h, S) ==
    IF S = {} THEN 0
    ELSE LET r == CHOOSE x \in S : TRUE IN Len(h[r]) + CountIn(h, S \ {r})

SampleCount == CountIn(heap, DOMAIN heap)

----------------------------------------------------------------------------
\* The values the queries return

\* mean_time without its guard: the division by len(times) = 0 fails, and
\* the call yields no number.
NaN == [num |-> 0, den |-> 0]
mean_time_unguarded(label) ==
    LET times == Times(label)
    IN IF Len(times) = 0 THEN NaN ELSE Rat(sum(times), Len(times))

mean_time(label) ==
    LET times == Times(label)
    IN IF times = <<>> THEN Zero ELSE Rat(sum(times), Len(times))

median_time(label) ==
    LET times == Times(label)
    IN IF times = <<>> THEN Zero ELSE median(times)

min_time(label) ==
    LET times == Times(label)
    IN IF times = <<>> THEN Zero ELSE Rat(min(times), 1)

max_time(label) ==
    LET times == Times(label)
    IN IF times = <<>> THEN Zero ELSE Rat(max(times), 1)

total_time(label) ==
    LET times == Times(label)
    IN IF times = <<>> THEN Zero ELSE Rat(sum(times), 1)

get_times(label) == RefOf(label)

----------------------------------------------------------------------------
\* The call stack

Frame(kind, label, start) ==
    [kind |-> kind, label |-> label, start_time |-> start, result |-> Pending]

Top == stack[Len(stack)]
Pop == SubSeq(stack, 1, Len(stack) - 1)

\* User code is executing: no exception is in flight and the innermost
\* wrapper is not between the return of func and its own return.
Running ==
    /\ raising = NoExc
    /\ stack # <<>> => Top.result = Pending

----------------------------------------------------------------------------
Init ==
    /\ _time_bank = <<>>
    /\ heap = <<>>
    /\ _label = Unset
    /\ _start_time = NoTime
    /\ now = 0
    /\ stack = <<>>
    /\ raising = NoExc
    /\ ret = RetNone("")
    /\ held = NoRef

\* Time passes.
Tick ==
    /\ now < MaxTick
    /\ now' = now + 1
    /\ UNCHANGED <<_time_bank, heap, _label, _start_time, stack, raising, ret, held>>

\* wrapper, line 36: the wrapped callable is invoked.
WrapperCall(label) ==
    /\ Running
    /\ Len(stack) < MaxDepth
    /\ stack' = Append(stack, Frame("wrapper", label, now))
    /\ UNCHANGED <<_time_bank, heap, _label, _start_time, now, raising, ret, held>>

\* wrapper, line 37: func returns v.
FuncReturn(v) ==
    /\ Running
    /\ stack # <<>>
    /\ Top.kind = "wrapper"
    /\ stack' = [stack EXCEPT ![Len(stack)].result = v]
    /\ UNCHANGED <<_time_bank, heap, _label, _start_time, now, raising, ret, held>>

\* A wrapper that records the duration and forgets to return the result.
WrapperFinish_no_return ==
    /\ raising = NoExc
    /\ stack # <<>>
    /\ Top.kind = "wrapper"
    /\ Top.result # Pending
    /\ SampleCount < MaxSamples
    /\ _time_bank' = BankAfterGet(Top.label)
    /\ heap' = HeapAfterAppend(Top.label, now - Top.start_time)
    /\ ret' = RetNone("wrapper")
    /\ stack' = Pop
    /\ UNCHANGED <<_label, _start_time, now, raising, held>>

\* A wrapper that keeps its start time in the field of the handle that the
\* scopes use, instead of a local of the invocation.
WrapperFinish_handle_start ==
    /\ raising = NoExc
    /\ stack # <<>>
    /\ Top.kind = "wrapper"
    /\ Top.result # Pending
    /\ SampleCount < MaxSamples
    /\ _time_bank' = BankAfterGet(Top.label)
    /\ heap' = HeapAfterAppend(Top.label, now - _start_time)
    /\ ret' = RetValue("wrapper", Top.result)
    /\ stack' = Pop
    /\ UNCHANGED <<_label, _start_time, now, raising, held>>

\* wrapper, lines 38-40: the duration is recorded and the result returned.
WrapperFinish ==
    /\ raising = NoExc
    /\ stack # <<>>
    /\ Top.kind = "wrapper"
    /\ Top.result # Pending
    /\ SampleCount < MaxSamples
    /\ LET end_time == now
       IN /\ _time_bank' = BankAfterGet(Top.label)
          /\ heap' = HeapAfterAppend(Top.label, end_time - Top.start_time)
    /\ ret' = RetValue("wrapper", Top.result)
    /\ stack' = Pop
    /\ UNCHANGED <<_label, _start_time, now, raising, held>>

\* The code of a wrapped callable or of a with-block raises e.
Raise(e) ==
    /\ Running
    /\ stack # <<>>
    /\ raising' = e
    /\ UNCHANGED <<_time_bank, heap, _label, _start_time, now, stack, ret, held>>

\* A wrapper that records the duration in a finally clause, so also when
\* func raises.
WrapperUnwind_finally ==
    /\ raising # NoExc
    /\ stack # <<>>
    /\ Top.kind = "wrapper"
    /\ SampleCount < MaxSamples
    /\ _time_bank' = BankAfterGet(Top.label)
    /\ heap' = HeapAfterAppend(Top.label, now - Top.start_time)
    /\ stack' = Pop
    /\ UNCHANGED <<_label, _start_time, now, raising, ret, held>>

\* wrapper, line 37: func raised; the exception leaves the wrapper.
WrapperUnwind ==
    /\ raising # NoExc
    /\ stack # <<>>
    /\ Top.kind = "wrapper"
    /\ stack' = Pop
    /\ UNCHANGED <<_time_bank, heap, _label, _start_time, now, raising, ret, held>>

\* The code around the innermost active call handles the exception.
Catch ==
    /\ raising # NoExc
    /\ raising' = NoExc
    /\ UNCHANGED <<_time_bank, heap, _label, _start_time, now, stack, ret, held>>

\* An __enter__ that does not check the label.
Enter_unchecked ==
    /\ Running
    /\ Len(stack) < MaxDepth
    /\ _start_time' = now
    /\ stack' = Append(stack, Frame("with", _label, now))
    /\ ret' = RetSelf("__enter__")
    /\ UNCHANGED <<_time_bank, heap, _label, now, raising, held>>

\* __enter__
Enter ==
    /\ Running
    /\ IF _label = Unset \/ _label = None
       THEN /\ raising' = ValueError
            /\ UNCHANGED <<_start_time, stack, ret>>
       ELSE /\ Len(stack) < MaxDepth
            /\ _start_time' = now
            /\ stack' = Append(stack, Frame("with", _label, now))
            /\ ret' = RetSelf("__enter__")
            /\ UNCHANGED raising
    /\ UNCHANGED <<_time_bank, heap, _label, now, held>>

\* An __exit__ that subtracts the end time from the start time.
Exit_swapped ==
    /\ stack # <<>>
    /\ Top.kind = "with"
    /\ SampleCount < MaxSamples
    /\ _time_bank' = BankAfterGet(_label)
    /\ heap' = HeapAfterAppend(_label, _start_time - now)
    /\ stack' = Pop
    /\ ret' = RetNone("__exit__")
    /\ UNCHANGED <<_label, _start_time, now, raising, held>>

\* An __exit__ that forgets the label, so that the next scope needs a new
\* using_label call.
Exit_resets_label ==
    /\ stack # <<>>
    /\ Top.kind = "with"
    /\ SampleCount < MaxSamples
    /\ _time_bank' = BankAfterGet(_label)
    /\ heap' = HeapAfterAppend(_label, now - _start_time)
    /\ stack' = Pop
    /\ ret' = RetNone("__exit__")
    /\ _label' = None
    /\ UNCHANGED <<_start_time, now, raising, held>>

\* __exit__, called when the with-block ends, normally or by an exception.
Exit ==
    /\ stack # <<>>
    /\ Top.kind = "with"
    /\ SampleCount < MaxSamples
    /\ LET end_time == now
       IN /\ _time_bank' = BankAfterGet(_label)
          /\ heap' = HeapAfterAppend(_label, end_time - _start_time)
    /\ stack' = Pop
    /\ ret' = RetNone("__exit__")
    /\ UNCHANGED <<_label, _start_time, now, raising, held>>

\* A using_label that sets the label and returns nothing, so that
\* `with clock.using_label(L):` has no handle to enter.
UsingLabel_returns_none(label) ==
    /\ Running
    /\ _label' = label
    /\ ret' = RetNone("using_label")
    /\ UNCHANGED <<_time_bank, heap, _start_time, now, stack, raising, held>>

\* using_label
UsingLabel(label) ==
    /\ Running
    /\ _label' = label
    /\ ret' = RetSelf("using_label")
    /\ UNCHANGED <<_time_bank, heap, _start_time, now, stack, raising, held>>

\* get_times: the list object itself is returned.
GetTimes(label) ==
    /\ Running
    /\ _time_bank' = BankAfterGet(label)
    /\ heap' = Reclaim(HeapAfterGet(label), BankAfterGet(label), {held})
    /\ ret' = RetList("get_times", get_times(label))
    /\ UNCHANGED <<_label, _start_time, now, stack, raising, held>>

\* A statistic that sorts the stored list in place before reducing it.
Query_sorting(call, label, value) ==
    /\ Running
    /\ _time_bank' = BankAfterGet(label)
    /\ heap' = [Reclaim(HeapAfterGet(label), BankAfterGet(label), {held})
                  EXCEPT ![RefOf(label)] = sorted(@)]
    /\ ret' = RetFloat(call, value)
    /\ UNCHANGED <<_label, _start_time, now, stack, raising, held>>

\* A statistic: the lookup self._time_bank[label], then the value returned.
Query(call, label, value) ==
    /\ Running
    /\ _time_bank' = BankAfterGet(label)
    /\ heap' = Reclaim(HeapAfterGet(label), BankAfterGet(label), {held})
    /\ ret' = RetFloat(call, value)
    /\ UNCHANGED <<_label, _start_time, now, stack, raising, held>>

MeanTime(label) == Query("mean_time", label, mean_time(label))
MedianTime(label) == Query("median_time", label, median_time(label))
MinTime(label) == Query("min_time", label, min_time(label))
MaxTime(label) == Query("max_time", label, max_time(label))
TotalTime(label) == Query("total_time", label, total_time(label))

\* A clear_times that ignores its argument and always clears every label.
BankAfterClear_all(label) == <<>>

\* A clear_times that does nothing when called without a label.
BankAfterClear_labelled_only(label) ==
    IF label # None
    THEN [k \in (DOMAIN _time_bank) \ {label} |-> _time_bank[k]]
    ELSE _time_bank

\* self._time_bank.pop(label, None) / self._time_bank.clear()
BankAfterClear(label) ==
    IF label # None
    THEN [k \in (DOMAIN _time_bank) \ {label} |-> _time_bank[k]]
    ELSE <<>>

\* clear_times; label = None is the call without an argument.
ClearTimes(label) ==
    /\ Running
    /\ _time_bank' = BankAfterClear(label)
    /\ heap' = Reclaim(heap, BankAfterClear(label), {held})
    /\ ret' = RetNone(IF label = None THEN "clear_times()" ELSE "clear_times(label)")
    /\ UNCHANGED <<_label, _start_time, now, stack, raising, held>>

\* The caller binds the list get_times returned to a variable of its own.
Keep ==
    /\ Running
    /\ ret.kind = "list"
    /\ held # ret.num
    /\ held' = ret.num
    /\ heap' = Reclaim(heap, _time_bank, {ret.num})
    /\ UNCHANGED <<_time_bank, _label, _start_time, now, stack, raising, ret>>

\* The caller changes the list it was given by get_times.
CallerAppend(d) ==
    /\ Running
    /\ held \in DOMAIN heap
    /\ SampleCount < MaxSamples
    /\ heap' = [heap EXCEPT ![held] = Append(@, d)]
    /\ UNCHANGED <<_time_bank, _label, _start_time, now, stack, raising, ret, held>>

CallerPop ==
    /\ Running
    /\ held \in DOMAIN heap
    /\ heap[held] # <<>>
    /\ heap' = [heap EXCEPT ![held] = SubSeq(@, 1, Len(@) - 1)]
    /\ UNCHANGED <<_time_bank, _label, _start_time, now, stack, raising, ret, held>>

RECURSIVE Reverse(_)
Reverse(s) == IF s = <<>> THEN <<>> ELSE Reverse(Tail(s)) \o <<s[1]>>

CallerReverse ==
    /\ Running
    /\ held \in DOMAIN heap
    /\ Len(heap[held]) > 1
    /\ heap' = [heap EXCEPT ![held] = Reverse(@)]
    /\ UNCHANGED <<_time_bank, _label, _start_time, now, stack, raising, ret, held>>

Next ==
    \/ Tick
    \/ \E label \in Labels : WrapperCall(label)
    \/ \E v \in RetVals : FuncReturn(v)
    \/ WrapperFinish
    \/ \E e \in UserErrors : Raise(e)
    \/ WrapperUnwind
    \/ Catch
    \/ Enter
    \/ Exit
    \/ \E label \in Labels : UsingLabel(label)
    \/ \E label \in Labels : GetTimes(label)
    \/ \E label \in Labels : MeanTime(label)
    \/ \E label \in Labels : MedianTime(label)
    \/ \E label \in Labels : MinTime(label)
    \/ \E label \in Labels : MaxTime(label)
    \/ \E label \in Labels : TotalTime(label)
    \/ \E label \in Labels \cup {None} : ClearTimes(label)

Spec == Init /\ [][Next]_vars

----------------------------------------------------------------------------
\* The registry with a caller that keeps and changes the lists get_times
\* gives it; samples come from wrapped callables.

NextAlias ==
    \/ Tick
    \/ \E label \in Labels : WrapperCall(label)
    \/ \E v \in RetVals : FuncReturn(v)
    \/ WrapperFinish
    \/ \E label \in Labels : GetTimes(label)
    \/ \E label \in Labels : TotalTime(label)
    \/ \E label \in Labels \cup {None} : ClearTimes(label)
    \/ Keep
    \/ \E d \in 0..MaxTick : CallerAppend(d)
    \/ CallerPop
    \/ CallerReverse

SpecAlias == Init /\ [][NextAlias]_vars

----------------------------------------------------------------------------
\* The statistics as functions of the recorded sequence: label "a" starts
\* with any sequence of at most MaxStatLen durations, and the queries run.

RECURSIVE SeqsUpTo(_, _)
SeqsUpTo(S, n) ==
    IF n = 0 THEN {<<>>}
    ELSE LET shorter == SeqsUpTo(S, n - 1)
         IN shorter \cup {Append(s, x) : s \in shorter, x \in S}

InitStats ==
    /\ \E times \in SeqsUpTo(0..MaxVal, MaxStatLen) :
          /\ _time_bank = ("a" :> 1)
          /\ heap = (1 :> times)
    /\ _label = Unset
    /\ _start_time = NoTime
    /\ now = 0
    /\ stack = <<>>
    /\ raising = NoExc
    /\ ret = RetNone("")
    /\ held = NoRef

NextStats ==
    \/ \E label \in Labels : GetTimes(label)
    \/ \E label \in Labels : MeanTime(label)
    \/ \E label \in Labels : MedianTime(label)
    \/ \E label \in Labels : MinTime(label)
    \/ \E label \in Labels : MaxTime(label)
    \/ \E label \in Labels : TotalTime(label)

SpecStats == InitStats /\ [][NextStats]_vars

----------------------------------------------------------------------------
\* Properties

\* The label has no samples: it is not in the mapping, or its list is empty.
NoData(label) ==
    \/ label \notin DOMAIN _time_bank
    \/ heap[_time_bank[label]] = <<>>

HasData(label) == ~NoData(label)

\* The sequence stored for the label; empty for a label not in the mapping.
Stored(label) ==
    IF label \in DOMAIN _time_bank THEN heap[_time_bank[label]] ELSE <<>>

\* C1: a query on a label without samples (absent from the mapping, or
\* present with an empty list) raises nothing; get_times returns an empty
\* list and each of the five statistics returns 0.0.
C1_NoDataQueries ==
    [][\A label \in Labels : NoData(label) =>
        /\ GetTimes(label) =>
              ret'.kind = "list" /\ heap'[ret'.num] = <<>> /\ raising' = NoExc
        /\ MeanTime(label) =>
              ret' = RetFloat("mean_time", Zero) /\ raising' = NoExc
        /\ MedianTime(label) =>
              ret' = RetFloat("median_time", Zero) /\ raising' = NoExc
        /\ MinTime(label) =>
              ret' = RetFloat("min_time", Zero) /\ raising' = NoExc
        /\ MaxTime(label) =>
              ret' = RetFloat("max_time", Zero) /\ raising' = NoExc
        /\ TotalTime(label) =>
              ret' = RetFloat("total_time", Zero) /\ raising' = NoExc]_vars

\* A statistic returned 0.0 while one label is absent from the mapping and
\* the other is present with an empty list.
C1_Witness ==
    /\ ret.kind = "float"
    /\ ret.num = 0
    /\ \E absent \in Labels, empty \in Labels :
          /\ absent \notin DOMAIN _time_bank
          /\ empty \in DOMAIN _time_bank
          /\ heap[_time_bank[empty]] = <<>>
    /\ now = MaxTick

\* The sum of the values of s, computed value by value and not along s.
RECURSIVE ValueSum(_, _)
ValueSum(s, V) ==
    IF V = {} THEN 0
    ELSE LET v == CHOOSE x \in V : TRUE
         IN v * Cardinality({i \in DOMAIN s : s[i] = v}) + ValueSum(s, V \ {v})

SumOf(s) == ValueSum(s, Range(s))

\* C2: for a label with samples d1..dn, in any order, total_time is their
\* sum, mean_time that sum divided by n, min_time the smallest and max_time
\* the largest of them.
C2_Reductions ==
    \A label \in Labels : HasData(label) =>
        LET s == Stored(label)
            n == Len(s)
        IN /\ total_time(label) = [num |-> SumOf(s), den |-> 1]
           /\ mean_time(label).num * n = mean_time(label).den * SumOf(s)
           /\ mean_time(label).den > 0
           /\ min_time(label).den = 1
           /\ min_time(label).num \in Range(s)
           /\ \A i \in DOMAIN s : min_time(label).num <= s[i]
           /\ max_time(label).den = 1
           /\ max_time(label).num \in Range(s)
           /\ \A i \in DOMAIN s : max_time(label).num >= s[i]

\* mean_time returned a value that is not a whole number for a sequence
\* that is not stored in ascending order.
C2_Witness ==
    /\ ret.call = "mean_time"
    /\ ret.den = 3
    /\ HasData("a")
    /\ Stored("a")[1] > Stored("a")[Len(Stored("a"))]

\* The k-th smallest value of s: fewer than k elements are below it, and at
\* least k are not above it.
KthSmallest(s, k) ==
    CHOOSE v \in Range(s) :
        /\ Cardinality({i \in DOMAIN s : s[i] < v}) < k
        /\ Cardinality({i \in DOMAIN s : s[i] <= v}) >= k

\* C3: for a label with n >= 1 samples in any order, median_time is the
\* middle value of the samples sorted by value when n is odd, and the
\* average of the two middle values when n is even.
C3_Median ==
    \A label \in Labels : HasData(label) =>
        LET s == Stored(label)
            n == Len(s)
            m == median_time(label)
        IN /\ m.den > 0
           /\ IF n % 2 = 1
              THEN m.num = m.den * KthSmallest(s, (n + 1) \div 2)
              ELSE 2 * m.num =
                     m.den * (KthSmallest(s, n \div 2) + KthSmallest(s, n \div 2 + 1))

\* median_time returned the average of the two middle values of four
\* samples stored out of order, as in the scenario [0.2, 0.1, 0.4, 0.3].
C3_Witness ==
    /\ ret.call = "median_time"
    /\ Stored("a") = <<1, 0, 3, 2>>
    /\ ret.num = 3
    /\ ret.den = 2

\* The result of each of the five statistics for the label.
Stats(label) ==
    <<mean_time(label), median_time(label), min_time(label), max_time(label),
      total_time(label)>>

AllZero == <<Zero, Zero, Zero, Zero, Zero>>

\* C4: clear_times(L), for a label L with or without samples, raises
\* nothing, leaves L without data (get_times empty, every statistic 0.0) and
\* leaves the sequence and the statistics of every other label as they were.
C4_ClearLabel ==
    [][\A label \in Labels : ClearTimes(label) =>
        /\ raising' = NoExc
        /\ NoData(label)'
        /\ (HeapAfterGet(label)[get_times(label)])' = <<>>
        /\ Stats(label)' = AllZero
        /\ \A other \in Labels \ {label} :
              /\ Stored(other)' = Stored(other)
              /\ Stats(other)' = Stats(other)]_vars

\* clear_times(label) has returned, the other label keeping its samples.
C4_Witness ==
    /\ ret.call = "clear_times(label)"
    /\ \E cleared \in Labels, kept \in Labels :
          /\ cleared \notin DOMAIN _time_bank
          /\ HasData(kept)

\* C5: clear_times() without argument leaves every label without data:
\* get_times is empty and every statistic 0.0 for every label, and the next
\* recording under any label starts a sequence of its own.
C5_ClearAll ==
    [][ClearTimes(None) =>
        /\ raising' = NoExc
        /\ \A label \in Labels :
              /\ NoData(label)'
              /\ (HeapAfterGet(label)[get_times(label)])' = <<>>
              /\ Stats(label)' = AllZero
              /\ (HeapAfterAppend(label, 0)[RefOf(label)])' = <<0>>]_vars

\* clear_times() has returned inside a with-block that was entered under a
\* label.
C5_Witness ==
    /\ ret.call = "clear_times()"
    /\ _time_bank = <<>>
    /\ stack # <<>>
    /\ Top.kind = "with"

\* The step in which the innermost wrapper invocation returns normally.
WrapperReturns ==
    /\ stack # <<>>
    /\ Top.kind = "wrapper"
    /\ Top.result # Pending
    /\ stack' = Pop

\* s with one more element at its end.
OneMore(s, t) == Len(t) = Len(s) + 1 /\ SubSeq(t, 1, Len(s)) = s

\* C6: an invocation of a wrapped callable that returns normally appends
\* exactly one sample to the sequence of its label, at its return and not
\* before, returns the value the callable returned, and changes the
\* sequence of no other label.
C6_WrapperRecords ==
    [][/\ WrapperReturns =>
            /\ ret' = RetValue("wrapper", Top.result)
            /\ raising' = NoExc
            /\ \A label \in Labels :
                  IF label = Top.label
                  THEN OneMore(Stored(label), Stored(label)')
                  ELSE Stored(label)' = Stored(label)
       /\ ((\E label \in Labels : WrapperCall(label)) \/ (\E v \in RetVals : FuncReturn(v))) =>
            \A label \in Labels : Stored(label)' = Stored(label)]_vars

\* Two wrapped callables with different labels have each been invoked once,
\* the last one returning the value 2.
C6_Witness ==
    /\ ret = RetValue("wrapper", 2)
    /\ Len(Stored("a")) = 1
    /\ Len(Stored("b")) = 1

\* C7: when the wrapped callable raises, the exception leaves the wrapper
\* unchanged and the wrapper records nothing: neither the invocation, nor
\* the raise, nor the exit of the wrapper changes the registry.
C7_WrapperRaises ==
    [][/\ (stack # <<>> /\ Top.kind = "wrapper" /\ raising # NoExc /\ stack' = Pop) =>
            /\ raising' = raising
            /\ _time_bank' = _time_bank
            /\ heap' = heap
       /\ ((\E label \in Labels : WrapperCall(label)) \/ (\E e \in UserErrors : Raise(e))) =>
            /\ _time_bank' = _time_bank
            /\ heap' = heap]_vars

\* An exception raised in a wrapped callable has left every wrapper, no
\* call has returned and nothing is recorded.
C7_Witness ==
    /\ raising \in UserErrors
    /\ stack = <<>>
    /\ ret.call = ""
    /\ _time_bank = <<>>
    /\ now > 0

\* C8: __enter__ on a handle without a label raises ValueError, starts no
\* scope (no start time is set, no with-block becomes active) and leaves
\* the registry unchanged.
C8_EnterWithoutLabel ==
    [][(Enter /\ (_label = Unset \/ _label = None)) =>
        /\ raising' = ValueError
        /\ stack' = stack
        /\ _start_time' = _start_time
        /\ _time_bank' = _time_bank
        /\ heap' = heap]_vars

\* ValueError is in flight on a handle that never had a label, with no
\* scope active, no start time and samples in the registry.
C8_Witness ==
    /\ raising = ValueError
    /\ _label = Unset
    /\ _start_time = NoTime
    /\ stack = <<>>
    /\ \E label \in Labels : HasData(label)

\* The step in which the innermost with-block is left.
ScopeExits ==
    /\ stack # <<>>
    /\ Top.kind = "with"
    /\ stack' = Pop

\* C9: the exit of a scope entered after using_label(L) appends exactly one
\* sample to the sequence of L and leaves the exception of the block as it
\* is.
C9_ExitRecordsUnderEntryLabel ==
    [][ScopeExits =>
        /\ raising' = raising
        /\ \A label \in Labels :
              label = Top.label => OneMore(Stored(label), Stored(label)')]_vars

\* C10: a caller that appends to, removes from or reorders the list
\* get_times returned changes neither the sequence nor the statistics the
\* registry has for any label.
C10_NoMutableAlias ==
    [][((\E d \in 0..MaxTick : CallerAppend(d)) \/ CallerPop \/ CallerReverse) =>
        \A label \in Labels :
            /\ Stored(label)' = Stored(label)
            /\ Stats(label)' = Stats(label)]_vars

ScopeEnters ==
    /\ Len(stack') = Len(stack) + 1
    /\ stack'[Len(stack')].kind = "with"

\* C12: the handle's lifecycle. using_label sets the label to one the caller
\* gave and returns the handle itself (Unconfigured or Configured ->
\* Configured); nothing else changes the label. A scope is entered only
\* with a label set, and the entry returns the handle (-> Active). A scope
\* exit leaves the label as it is (-> Configured) and appends one sample to
\* the sequence of the label then set, so a scope entered again without
\* using_label records under the same label, and scopes after a later
\* using_label(L2) record under L2.
C12_Lifecycle ==
    [][/\ (ret'.call = "using_label" /\ ret' # ret) =>
            /\ ret'.kind = "self"
            /\ _label' \in Labels
            /\ stack' = stack
            /\ _time_bank' = _time_bank
            /\ heap' = heap
       /\ _label' # _label => ret'.call = "using_label"
       /\ ScopeEnters =>
            /\ _label \in Labels
            /\ _label' = _label
            /\ stack'[Len(stack')].label = _label
            /\ ret' = RetSelf("__enter__")
       /\ ScopeExits =>
            /\ _label' = _label
            /\ \A label \in Labels :
                  IF label = _label
                  THEN OneMore(Stored(label), Stored(label)')
                  ELSE Stored(label)' = Stored(label)]_vars

\* A scope has just exited with no scope left active, the label is "b",
\* and each of "a" and "b" has one sample: the handle recorded under "a",
\* was given "b" by a later using_label, and its scope recorded under "b".
C12_Witness ==
    /\ ret.call = "__exit__"
    /\ stack = <<>>
    /\ _label = "b"
    /\ Len(Stored("a")) = 1
    /\ Len(Stored("b")) = 1

\* The scopes entered and not yet exited.
ActiveScopes == {i \in DOMAIN stack : stack[i].kind = "with"}

\* C13: in every reachable state the handle has at most one scope that has
\* been entered and not yet exited.
C13_OneActiveScope == Cardinality(ActiveScopes) <= 1

\* A step that is a clear_times call.
Clears == \E label \in Labels \cup {None} : ClearTimes(label)

\* C14: the sequence of a label changes only by a recording, which is a
\* wrapper return or a scope exit and puts one sample at the end, or by
\* clear_times, which empties it; every other step leaves its content and
\* order as they are. get_times(L) returns that sequence, so it lists the
\* samples of L in the order of their recording.
C14_RecordingOrder ==
    [][\A label \in Labels :
         /\ \/ Stored(label)' = Stored(label)
            \/ OneMore(Stored(label), Stored(label)') /\ (WrapperReturns \/ ScopeExits)
            \/ Stored(label)' = <<>> /\ Clears
         /\ GetTimes(label) =>
              /\ ret'.kind = "list"
              /\ heap'[ret'.num] = Stored(label)
              /\ Stored(label)' = Stored(label)]_vars

\* get_times("a") has returned the two samples of "a", the larger one
\* recorded first: the order is that of the recording, not of the values.
C14_Witness ==
    /\ ret.call = "get_times"
    /\ ret.num \in DOMAIN heap
    /\ heap[ret.num] = <<1, 0>>
    /\ Stored("a") = <<1, 0>>

\* A step that is the given query on the label. The first four conjuncts
\* follow from the last one.
QueryStep(call, label, Q) ==
    /\ ret'.call = call
    /\ stack' = stack
    /\ now' = now
    /\ raising' = raising
    /\ Q

\* A step that is a query on the label.
Queries(label) ==
    \/ QueryStep("get_times", label, GetTimes(label))
    \/ QueryStep("mean_time", label, MeanTime(label))
    \/ QueryStep("median_time", label, MedianTime(label))
    \/ QueryStep("min_time", label, MinTime(label))
    \/ QueryStep("max_time", label, MaxTime(label))
    \/ QueryStep("total_time", label, TotalTime(label))

\* What an explicit mapping with a no-data default answers for the sequence
\* s it has for a label (empty when it has none): 0.0 without samples,
\* otherwise the reduction, written without reference to the stored order.
ExplicitStat(call, s) ==
    LET n == Len(s)
    IN IF s = <<>> THEN Zero
       ELSE CASE call = "mean_time" -> Rat(SumOf(s), n)
              [] call = "median_time" ->
                   IF n % 2 = 1
                   THEN Rat(KthSmallest(s, (n + 1) \div 2), 1)
                   ELSE Rat(KthSmallest(s, n \div 2) + KthSmallest(s, n \div 2 + 1), 2)
              [] call = "min_time" -> Rat(KthSmallest(s, 1), 1)
              [] call = "max_time" -> Rat(KthSmallest(s, n), 1)
              [] call = "total_time" -> Rat(SumOf(s), 1)

\* C15: a query (get_times or one of the five statistics) leaves the
\* content and order of the sequence of every label as they are; all it may
\* change in the mapping is to add the queried label with an empty list.
\* Its result is the one an explicit mapping holding the same sequences,
\* with no entry added by a query, gives: get_times the sequence of the
\* label, empty when there is none, and a statistic its reduction or 0.0.
\* As recordings and clear_times change the sequences alike in both, the
\* results agree along every run.
C15_QueriesReadOnly ==
    [][\A label \in Labels :
         /\ Queries(label) =>
              /\ \A l \in Labels : Stored(l)' = Stored(l)
              /\ DOMAIN _time_bank' = DOMAIN _time_bank \cup {label}
              /\ \A l \in DOMAIN _time_bank : _time_bank'[l] = _time_bank[l]
         /\ QueryStep("get_times", label, GetTimes(label)) => heap'[ret'.num] = Stored(label)
         /\ QueryStep("mean_time", label, MeanTime(label)) =>
              ret' = RetFloat("mean_time", ExplicitStat("mean_time", Stored(label)))
         /\ QueryStep("median_time", label, MedianTime(label)) =>
              ret' = RetFloat("median_time", ExplicitStat("median_time", Stored(label)))
         /\ QueryStep("min_time", label, MinTime(label)) =>
              ret' = RetFloat("min_time", ExplicitStat("min_time", Stored(label)))
         /\ QueryStep("max_time", label, MaxTime(label)) =>
              ret' = RetFloat("max_time", ExplicitStat("max_time", Stored(label)))
         /\ QueryStep("total_time", label, TotalTime(label)) =>
              ret' = RetFloat("total_time", ExplicitStat("total_time", Stored(label)))]_vars

\* median_time has returned 0.5 for a label whose two samples are still
\* stored larger first, and an earlier query on the unseen label "b" has
\* left "b" in the mapping with an empty list.
C15_Witness ==
    /\ ret.call = "median_time"
    /\ ret.num = 1
    /\ ret.den = 2
    /\ Stored("a") = <<1, 0>>
    /\ "b" \in DOMAIN _time_bank
    /\ Stored("b") = <<>>

\* C16: the exit of a scope appends to the sequence of the label that was
\* set when that scope was entered the time elapsed since that scope was
\* entered, and changes the sequence of no other label, whatever was called
\* on the handle in between.
C16_ScopeSampleAttribution ==
    [][ScopeExits =>
        \A label \in Labels :
           IF label = Top.label
           THEN Stored(label)' = Append(Stored(label), now - Top.start_time)
           ELSE Stored(label)' = Stored(label)]_vars

\* A step that starts an invocation of a wrapped callable.
WrapperEnters ==
    /\ Len(stack') = Len(stack) + 1
    /\ stack'[Len(stack')].kind = "wrapper"

\* C17: wrapped invocations nest. An invocation starts with its own start
\* time, the time of its call, whatever is active around it; its normal
\* return appends one sample, the time elapsed since its own start, to the
\* sequence of its own label and to no other. Neither step changes the
\* label or the start time of the handle, and no step changes an
\* invocation below the innermost one; as the innermost invocation is the
\* one that returns, an inner sample is appended before the outer one.
C17_WrapperReentrant ==
    [][/\ WrapperEnters =>
            /\ stack'[Len(stack')].start_time = now
            /\ SubSeq(stack', 1, Len(stack)) = stack
            /\ _label' = _label
            /\ _start_time' = _start_time
            /\ \A label \in Labels : Stored(label)' = Stored(label)
       /\ WrapperReturns =>
            /\ \A label \in Labels :
                  IF label = Top.label
                  THEN Stored(label)' = Append(Stored(label), now - Top.start_time)
                  ELSE Stored(label)' = Stored(label)
            /\ _label' = _label
            /\ _start_time' = _start_time
       /\ \A i \in DOMAIN stack :
            (i < Len(stack) /\ i \in DOMAIN stack') => stack'[i] = stack[i]]_vars

\* An invocation labelled "b" has returned after one tick while the
\* invocation labelled "a" that was called at time 0 is still running: the
\* only sample is the inner one's, under its own label.
C17_Witness ==
    /\ ret.call = "wrapper"
    /\ stack = <<Frame("wrapper", "a", 0)>>
    /\ Stored("b") = <<1>>
    /\ Stored("a") = <<>>

\* C18: time never runs backwards (Tick), and every sample in every list of
\* the registry is non-negative, in every reachable state.
C18_NonNegativeSamples ==
    \A r \in DOMAIN heap : \A i \in DOMAIN heap[r] : heap[r][i] >= 0

\* An inner scope, entered at time 1 inside a scope entered at time 0 that
\* is still active, has exited at time 2 and stored a sample of one tick.
C18_Witness ==
    /\ ret.call = "__exit__"
    /\ Len(stack) = 1
    /\ Top.kind = "with"
    /\ Top.start_time = 0
    /\ _start_time = 1
    /\ now = 2
    /\ Stored(_label) = <<1>>

====
